---- MODULE Spec2Model ----
(***************************************************************************)
(* SnakeKit Studio (src/src/App.tsx): the live-preview snake engine of the *)
(* App component, its builder, and the game logic embedded in the two      *)
(* generated artifacts (the browser script of exportHTML and the Python    *)
(* script of doExport).                                                    *)
(*                                                                         *)
(* Positions are records [x, y].  Arrays are sequences; JavaScript's       *)
(* 0-based indices are shifted by one, so findIndex returns 0 where the    *)
(* code returns -1.  A handler together with the React effects its state   *)
(* updates trigger is one action.                                          *)
(*                                                                         *)
(* Specifications: Spec (the live engine from the mounted state),          *)
(* SpecBoard (the live engine from boards deep in a game), SpecTimed (the  *)
(* live engine with the age of its interval, under fair time), SpecKeys    *)
(* (the live engine without swipes and Restart), SpecCall                  *)
(* (randomEmptyCell alone) and SpecReplay (the live engine and the two     *)
(* generated scripts fed the same events).                                 *)
(***************************************************************************)
EXTENDS Integers, Sequences, FiniteSets, TLC

(***************************************************************************)
(* Bounds of the model.                                                    *)
(***************************************************************************)
\* Ticks applied by the live engine since construction.
MaxTicks == 4
\* Cells the builder may hold.
MaxBuilder == 2
\* The largest gridSize randomEmptyCell is called with on its own.
MaxGrid == 2
\* Time units in one period of the interval (1000 / speed milliseconds).
Period == 2
\* Ticks applied by the engine whose interval is timed.
MaxTimedTicks == 3
\* Math.random() is drawn from { k / RandSamples : k \in 0..RandSamples-1 }.
RandSamples == 3

(***************************************************************************)
(* Program constants and value types.                                      *)
(***************************************************************************)
GRID_SIZE == 20

Pos(x, y) == [x |-> x, y |-> y]

START_SNAKE ==
  << Pos((GRID_SIZE \div 2) - 1, GRID_SIZE \div 2),
     Pos(GRID_SIZE \div 2, GRID_SIZE \div 2),
     Pos((GRID_SIZE \div 2) + 1, GRID_SIZE \div 2) >>

Dirs == {"UP", "DOWN", "LEFT", "RIGHT"}

\* The value of a Position | null that is null.
Null == Pos(-1, -1)

\* The values Math.random() is drawn from, as numerators over RandSamples.
Random == 0 .. (RandSamples - 1)

\* Math.floor(r * n) for r = k / RandSamples.
FloorMul(k, n) == (k * n) \div RandSamples

(***************************************************************************)
(* Inputs.                                                                 *)
(***************************************************************************)
\* Key identifiers of keydown events; "Enter" maps to no direction.
Keys == {"ArrowUp", "ArrowLeft", "s", "D", "Enter"}

\* Swipe vectors (clientX and clientY differences); the last one is too short.
Swipes == {<<30, 0>>, <<-30, 0>>, <<0, 30>>, <<0, -30>>, <<20, 5>>}

Kinds == {"food", "obstacle"}

\* Drops: the kind dragged and the cell it lands on; the last one lies outside
\* the grid.
Drops ==
  { [kind |-> "food", x |-> 9, y |-> 9],
    [kind |-> "obstacle", x |-> 9, y |-> 9],
    [kind |-> "food", x |-> GRID_SIZE, y |-> 3] }

\* The drop of the timed engine: a food above the head of START_SNAKE.
TimedDrops == { [kind |-> "food", x |-> 9, y |-> 9] }

\* Drops of the replayed configurations.
ReplayDrops ==
  { [kind |-> "food", x |-> 9, y |-> 9],
    [kind |-> "obstacle", x |-> 9, y |-> 9],
    [kind |-> "food", x |-> 15, y |-> 10],
    [kind |-> "obstacle", x |-> 0, y |-> 0] }

(***************************************************************************)
(* Array helpers.                                                          *)
(***************************************************************************)
\* arr.some(p => p.x === nx && p.y === ny)
Some(arr, nx, ny) == \E i \in 1..Len(arr) : arr[i].x = nx /\ arr[i].y = ny

\* arr.findIndex(f => f.x === nx && f.y === ny), 0 when there is none.
FindIndex(arr, nx, ny) ==
  IF Some(arr, nx, ny)
  THEN CHOOSE i \in 1..Len(arr) :
         /\ arr[i].x = nx /\ arr[i].y = ny
         /\ \A j \in 1..(i - 1) : ~(arr[j].x = nx /\ arr[j].y = ny)
  ELSE 0

\* arr.splice(i, 1) on a copy.
Splice(arr, i) == [j \in 1..(Len(arr) - 1) |-> IF j < i THEN arr[j] ELSE arr[j + 1]]

\* arr.pop() on a copy.
Pop(arr) == SubSeq(arr, 1, Len(arr) - 1)

\* `${p.x},${p.y}`: the decimal x, a comma, the decimal y.
keyFor(p) == <<p.x, ",", p.y>>

KeySet(arr) == {keyFor(arr[i]) : i \in 1..Len(arr)}

(***************************************************************************)
(* randomEmptyCell: the free cells in row-major order, and the one at      *)
(* index Math.floor(Math.random() * empty.length), or null.                *)
(***************************************************************************)
EmptyCells(occupied, gridSize) ==
  LET all == [i \in 1..(gridSize * gridSize) |->
                Pos((i - 1) % gridSize, (i - 1) \div gridSize)]
      Free(c) == keyFor(c) \notin occupied
  IN SelectSeq(all, Free)

\* A choice among all the cells of the grid, occupied or not.
randomAnyCell(occupied, gridSize, r) ==
  LET empty == EmptyCells({}, gridSize)
  IN IF Len(empty) = 0 THEN Null ELSE empty[FloorMul(r, Len(empty)) + 1]

randomEmptyCell(occupied, gridSize, r) ==
  LET empty == EmptyCells(occupied, gridSize)
  IN IF Len(empty) = 0 THEN Null ELSE empty[FloorMul(r, Len(empty)) + 1]

(***************************************************************************)
(* The generated artifacts.  The embedded scripts are read with their type *)
(* annotations erased (new Set<string>(a) is new Set(a), `k as T` is k).   *)
(***************************************************************************)
\* JSON.stringify of a Position[]: one object text per element.
Stringify(arr) == [i \in 1..Len(arr) |-> <<"{", "x", arr[i].x, "y", arr[i].y, "}">>]

\* A JSON array text evaluated as a JavaScript literal: objects with x and y.
JsLiteral(json) == [i \in 1..Len(json) |-> Pos(json[i][3], json[i][5])]

\* Python values: a tuple (a, b) and a dict {"x": .., "y": ..}.
PyTuple(a, b) == [type |-> "tuple", a |-> a, b |-> b]

PyDict(x, y) == [type |-> "dict", x |-> x, y |-> y]

\* A JSON array text evaluated as a Python literal: a list of dicts.
PyLiteral(json) == [i \in 1..Len(json) |-> PyDict(json[i][3], json[i][5])]

\* The state the browser script starts in.
exportHTML(s, fs, obs) ==
  [ snake |-> JsLiteral(Stringify(s)),
    dir |-> [x |-> 1, y |-> 0],
    foods |-> JsLiteral(Stringify(fs)),
    obstacles |-> JsLiteral(Stringify(obs)),
    paused |-> FALSE,
    gameOver |-> FALSE ]

\* The state SnakeGame.__init__ of the Python script leaves.
exportPython(fs, obs) ==
  [ snake |-> << PyTuple(GRID_SIZE \div 2, GRID_SIZE \div 2),
                 PyTuple((GRID_SIZE \div 2) - 1, GRID_SIZE \div 2),
                 PyTuple((GRID_SIZE \div 2) - 2, GRID_SIZE \div 2) >>,
    dir |-> PyTuple(1, 0),
    foods |-> PyLiteral(Stringify(fs)),
    obstacles |-> PyLiteral(Stringify(obs)),
    running |-> TRUE ]

(***************************************************************************)
(* State.                                                                  *)
(***************************************************************************)
VARIABLES
  builder,    \* BuilderCell[]: the cells placed in the builder
  snake,      \* Position[]: head at index 1
  dir,        \* the pending direction
  foods,      \* Position[]
  obstacles,  \* Position[]
  paused,
  gameOver,
  score,
  html,       \* the state of the exported browser script
  py,         \* the state of the exported Python script
  ticks,      \* timer firings applied since the initial state
  pristine,   \* the run is the first one and no direction input, restart or
              \* builder edit has arrived since its first tick
  restarted,  \* whether the handler that ran last was Restart
  phase,      \* "live": the preview alone; "build" / "play": the preview and
              \* the two artifacts replayed side by side; "timed": the preview
              \* with the age of its interval; "call": randomEmptyCell alone
  elapsed,    \* time units since the interval of the game loop was created
  accepted,   \* the directions the input handlers committed since the last
              \* timer firing: the first one and, when there are more, the last
  superseded, \* the direction committed first in the window the last timer
              \* firing closed, when a different one replaced it; else "NONE"
  call        \* an invocation of randomEmptyCell: its arguments and result

live == <<builder, snake, dir, foods, obstacles, paused, gameOver, score>>

artifacts == <<html, py, phase>>

\* What only the timed engine and the spawner's own specification move.
extras == <<elapsed, accepted, superseded, call>>

vars == <<builder, snake, dir, foods, obstacles, paused, gameOver, score,
          html, py, ticks, pristine, restarted, phase,
          elapsed, accepted, superseded, call>>

\* No invocation of randomEmptyCell is being observed.
NoCall == [state |-> "none"]

\* builder.filter(b => b.kind === kind).map(b => ({x: b.x, y: b.y}))
OfKind(b, kind) ==
  LET IsKind(c) == c.kind = kind
      sel == SelectSeq(b, IsKind)
  IN [i \in 1..Len(sel) |-> Pos(sel[i].x, sel[i].y)]

initialFoods(b) == OfKind(b, "food")

initialObstacles(b) == OfKind(b, "obstacle")

\* The state after the first render and its mount effects (doExport included).
Mounted ==
  /\ builder = <<>>
  /\ snake = START_SNAKE
  /\ dir = "RIGHT"
  /\ foods = initialFoods(<<>>)
  /\ obstacles = initialObstacles(<<>>)
  /\ paused = FALSE
  /\ gameOver = FALSE
  /\ score = 0
  /\ html = exportHTML(START_SNAKE, initialFoods(<<>>), initialObstacles(<<>>))
  /\ py = exportPython(initialFoods(<<>>), initialObstacles(<<>>))
  /\ ticks = 0
  /\ pristine = TRUE
  /\ restarted = FALSE
  /\ elapsed = 0
  /\ accepted = <<>>
  /\ superseded = "NONE"
  /\ call = NoCall

Init == Mounted /\ phase = "live"

(***************************************************************************)
(* Direction input: the keydown handler and the swipe handler.             *)
(***************************************************************************)
\* The direction a key identifier maps to, "NONE" for an unmapped key.
KeyDir(k) ==
  IF k \in {"ArrowUp", "w", "W"} THEN "UP"
  ELSE IF k \in {"ArrowDown", "s", "S"} THEN "DOWN"
  ELSE IF k \in {"ArrowLeft", "a", "A"} THEN "LEFT"
  ELSE IF k \in {"ArrowRight", "d", "D"} THEN "RIGHT"
  ELSE "NONE"

\* The `opposite` test of the keydown handler.
IsOpposite(cur, nd) ==
  \/ (cur = "UP" /\ nd = "DOWN")
  \/ (cur = "DOWN" /\ nd = "UP")
  \/ (cur = "LEFT" /\ nd = "RIGHT")
  \/ (cur = "RIGHT" /\ nd = "LEFT")

\* The pending direction after the keydown handler ran on key k.
KeyResult(cur, k) ==
  LET nd == KeyDir(k)
  IN IF nd # "NONE" /\ ~IsOpposite(cur, nd) THEN nd ELSE cur

onKey(k) ==
  /\ dir' = KeyResult(dir, k)
  /\ pristine' = (pristine /\ KeyDir(k) = "NONE")
  /\ restarted' = FALSE
  /\ UNCHANGED <<builder, snake, foods, obstacles, paused, gameOver, score>>

Abs(n) == IF n < 0 THEN -n ELSE n

\* The direction a swipe vector maps to, "NONE" for a short swipe.
SwipeDir(dx, dy) ==
  IF Abs(dx) > Abs(dy)
  THEN (IF dx > 20 THEN "RIGHT" ELSE IF dx < -20 THEN "LEFT" ELSE "NONE")
  ELSE (IF dy > 20 THEN "DOWN" ELSE IF dy < -20 THEN "UP" ELSE "NONE")

\* A swipe handler that leaves the pending direction alone.
SwipeResultIgnored(cur, dx, dy) == cur

\* The pending direction after the swipe handler ran on (dx, dy).
SwipeResult(cur, dx, dy) ==
  IF SwipeDir(dx, dy) # "NONE" THEN SwipeDir(dx, dy) ELSE cur

onTouchEnd(dx, dy) ==
  /\ dir' = SwipeResult(dir, dx, dy)
  /\ pristine' = (pristine /\ SwipeDir(dx, dy) = "NONE")
  /\ restarted' = FALSE
  /\ UNCHANGED <<builder, snake, foods, obstacles, paused, gameOver, score>>

(***************************************************************************)
(* The game loop: one firing of the interval callback.                     *)
(***************************************************************************)
NextX(head, d) == IF d = "LEFT" THEN head.x - 1 ELSE IF d = "RIGHT" THEN head.x + 1 ELSE head.x

NextY(head, d) == IF d = "UP" THEN head.y - 1 ELSE IF d = "DOWN" THEN head.y + 1 ELSE head.y

\* A wall test that looks at the left and top edges only.
HitWallLowOnly(nx, ny) == nx < 0 \/ ny < 0

HitWall(nx, ny) == nx < 0 \/ ny < 0 \/ nx >= GRID_SIZE \/ ny >= GRID_SIZE

\* A self-collision test that looks at the head only.
HitSelfHeadOnly(s, nx, ny) == s[1].x = nx /\ s[1].y = ny

HitSelf(s, nx, ny) == Some(s, nx, ny)

HitObstacle(obs, nx, ny) == Some(obs, nx, ny)

\* A move that never removes the tail.
MoveSnakeNoPop(s, nx, ny, ate) == <<Pos(nx, ny)>> \o s

\* The snake after a move onto (nx, ny): the tail stays when food was eaten.
MoveSnake(s, nx, ny, ate) ==
  LET nextSnake == <<Pos(nx, ny)>> \o s
  IN IF ate THEN nextSnake ELSE Pop(nextSnake)

\* Eating without a replacement food.
EatFoodsNoSpawn(fs, eatIndex, nextSnake, obs, r) == Splice(fs, eatIndex)

\* The foods after eating foods[eatIndex], with Math.random() = r.
EatFoods(fs, eatIndex, nextSnake, obs, r) ==
  LET newFoods == Splice(fs, eatIndex)
      occupied == KeySet(nextSnake) \cup KeySet(obs)
      spawn == randomEmptyCell(occupied, GRID_SIZE, r)
  IN IF spawn # Null THEN Append(newFoods, spawn) ELSE newFoods

\* Whether the interval callback, run now, eats a food.
Eats ==
  LET nx == NextX(snake[1], dir)
      ny == NextY(snake[1], dir)
  IN /\ ~(HitWall(nx, ny) \/ HitSelf(snake, nx, ny) \/ HitObstacle(obstacles, nx, ny))
     /\ FindIndex(foods, nx, ny) > 0

\* The interval callback, with Math.random() = r.
Interval(r) ==
  LET head == snake[1]
      nx == NextX(head, dir)
      ny == NextY(head, dir)
      eatIndex == FindIndex(foods, nx, ny)
  IN IF HitWall(nx, ny) \/ HitSelf(snake, nx, ny) \/ HitObstacle(obstacles, nx, ny)
     THEN /\ gameOver' = TRUE
          /\ UNCHANGED <<snake, foods, score>>
     ELSE /\ snake' = MoveSnake(snake, nx, ny, eatIndex > 0)
          /\ IF eatIndex > 0
             THEN /\ score' = score + 1
                  /\ foods' = EatFoods(foods, eatIndex, snake', obstacles, r)
             ELSE UNCHANGED <<foods, score>>
          /\ UNCHANGED gameOver

\* The draws of Math.random() a callback that eats (or does not) consumes.
Draws(eats) == IF eats THEN Random ELSE {0}

\* An interval that pausing does not clear.
HasIntervalIgnoringPause == ~gameOver

\* An interval that the end of the run does not clear.
HasIntervalIgnoringGameOver == ~paused

\* The effect creates the interval only while neither paused nor game over.
HasInterval == ~paused /\ ~gameOver

\* One firing of the interval.
TimerFires ==
  /\ HasInterval
  /\ ticks < MaxTicks
  /\ ticks' = ticks + 1
  /\ \E r \in Draws(Eats) : Interval(r)
  /\ restarted' = FALSE
  /\ UNCHANGED <<builder, dir, obstacles, paused, pristine>>

Tick ==
  /\ TimerFires
  /\ UNCHANGED artifacts
  /\ UNCHANGED extras

(***************************************************************************)
(* Pause / Resume and Restart buttons.                                     *)
(***************************************************************************)
\* onClick of the Pause / Resume button.
onPauseClick ==
  /\ paused' = ~paused
  /\ restarted' = FALSE
  /\ UNCHANGED <<builder, snake, dir, foods, obstacles, gameOver, score>>
  /\ UNCHANGED <<ticks, pristine>>

\* A Restart that leaves the score alone.
onRestartClickKeepingScore ==
  /\ snake' = START_SNAKE
  /\ dir' = "RIGHT"
  /\ gameOver' = FALSE
  /\ pristine' = FALSE
  /\ restarted' = TRUE
  /\ UNCHANGED <<builder, foods, obstacles, paused, ticks, score>>

\* onClick of the Restart button.
onRestartClick ==
  /\ snake' = START_SNAKE
  /\ dir' = "RIGHT"
  /\ score' = 0
  /\ gameOver' = FALSE
  /\ pristine' = FALSE
  /\ restarted' = TRUE
  /\ UNCHANGED <<builder, foods, obstacles, paused, ticks>>

TogglePause ==
  /\ onPauseClick
  /\ UNCHANGED artifacts
  /\ UNCHANGED extras

Restart ==
  /\ onRestartClick
  /\ UNCHANGED artifacts
  /\ UNCHANGED extras

(***************************************************************************)
(* The builder.  Every setBuilder produces a new array, so both memos are  *)
(* recomputed and both sync effects run: foods and obstacles are set to    *)
(* the builder's.                                                          *)
(***************************************************************************)
SetBuilder(b) ==
  /\ builder' = b
  /\ foods' = initialFoods(b)
  /\ obstacles' = initialObstacles(b)

BuilderHas(b, x, y) == \E i \in 1..Len(b) : b[i].x = x /\ b[i].y = y

addToBuilder(kind) ==
  LET cx == GRID_SIZE \div 2
      cy == GRID_SIZE \div 2
  IN /\ Len(builder) < MaxBuilder
     /\ IF ~BuilderHas(builder, cx, cy)
        THEN SetBuilder(Append(builder, [x |-> cx, y |-> cy, kind |-> kind]))
        ELSE UNCHANGED <<builder, foods, obstacles>>
     /\ pristine' = (pristine /\ ticks = 0)
     /\ restarted' = FALSE
     /\ UNCHANGED <<snake, dir, paused, gameOver, score>>

onDrop(kind, x, y) ==
  /\ Len(builder) < MaxBuilder
  /\ IF x >= 0 /\ y >= 0 /\ x < GRID_SIZE /\ y < GRID_SIZE /\ ~BuilderHas(builder, x, y)
     THEN SetBuilder(Append(builder, [x |-> x, y |-> y, kind |-> kind]))
     ELSE UNCHANGED <<builder, foods, obstacles>>
  /\ pristine' = (pristine /\ ticks = 0)
  /\ restarted' = FALSE
  /\ UNCHANGED <<snake, dir, paused, gameOver, score>>

clearBuilder ==
  /\ builder' = <<>>
  /\ foods' = <<>>
  /\ obstacles' = <<>>
  /\ pristine' = (pristine /\ ticks = 0)
  /\ restarted' = FALSE
  /\ UNCHANGED <<snake, dir, paused, gameOver, score>>

(***************************************************************************)
(* The live engine.                                                        *)
(***************************************************************************)
KeyDown ==
  /\ \E k \in Keys : onKey(k)
  /\ UNCHANGED ticks
  /\ UNCHANGED artifacts
  /\ UNCHANGED extras

Swipe ==
  /\ \E v \in Swipes : onTouchEnd(v[1], v[2])
  /\ UNCHANGED ticks
  /\ UNCHANGED artifacts
  /\ UNCHANGED extras

AddCell ==
  /\ \E kind \in Kinds : addToBuilder(kind)
  /\ UNCHANGED ticks
  /\ UNCHANGED artifacts
  /\ UNCHANGED extras

DropCell ==
  /\ \E d \in Drops : onDrop(d.kind, d.x, d.y)
  /\ UNCHANGED ticks
  /\ UNCHANGED artifacts
  /\ UNCHANGED extras

Clear ==
  /\ clearBuilder
  /\ UNCHANGED ticks
  /\ UNCHANGED artifacts
  /\ UNCHANGED extras

Next ==
  \/ KeyDown
  \/ Swipe
  \/ Tick
  \/ TogglePause
  \/ Restart
  \/ AddCell
  \/ DropCell
  \/ Clear

Spec == Init /\ [][Next]_vars

\* The live engine steered from the keyboard alone, within its first run.
KeysNext ==
  \/ KeyDown
  \/ Tick
  \/ TogglePause
  \/ AddCell
  \/ DropCell
  \/ Clear

SpecKeys == Init /\ [][KeysNext]_vars

(***************************************************************************)
(* The live engine started from boards that play reaches only after more   *)
(* ticks or more builder cells than the bounds allow from the mounted      *)
(* state.                                                                  *)
(***************************************************************************)
\* The snake after the ticks UP, RIGHT, DOWN and then RIGHT up to the last
\* column: its head is at (GRID_SIZE - 1, 10).
WallSnake ==
  << Pos(GRID_SIZE - 1, GRID_SIZE \div 2),
     Pos(GRID_SIZE - 2, GRID_SIZE \div 2),
     Pos(GRID_SIZE - 3, GRID_SIZE \div 2) >>

\* The cell above the head of START_SNAKE.
AboveStart == Pos(START_SNAKE[1].x, START_SNAKE[1].y - 1)

\* The builder after a drop on every cell off START_SNAKE, in row-major
\* order: a food above the head, an obstacle everywhere else.
FullBuilder ==
  LET all == [i \in 1..(GRID_SIZE * GRID_SIZE) |->
                Pos((i - 1) % GRID_SIZE, (i - 1) \div GRID_SIZE)]
      OffSnake(c) == ~Some(START_SNAKE, c.x, c.y)
      cells == SelectSeq(all, OffSnake)
  IN [i \in 1..Len(cells) |->
        [x |-> cells[i].x, y |-> cells[i].y,
         kind |-> IF cells[i] = AboveStart THEN "food" ELSE "obstacle"]]

\* The builder after a drop of a food on the first cell of the grid and one
\* on the cell above the head.
TwoFoods ==
  << [x |-> 0, y |-> 0, kind |-> "food"],
     [x |-> AboveStart.x, y |-> AboveStart.y, kind |-> "food"] >>

\* The boards: the mounted one, the snake at the right wall of an empty
\* grid, the start snake on the grid FullBuilder fills, and the start snake
\* with the foods of TwoFoods.
Boards ==
  { [builder |-> <<>>, snake |-> START_SNAKE],
    [builder |-> <<>>, snake |-> WallSnake],
    [builder |-> FullBuilder, snake |-> START_SNAKE],
    [builder |-> TwoFoods, snake |-> START_SNAKE] }

BoardInit ==
  /\ \E b \in Boards :
       /\ builder = b.builder
       /\ snake = b.snake
       /\ foods = initialFoods(b.builder)
       /\ obstacles = initialObstacles(b.builder)
  /\ dir = "RIGHT"
  /\ paused = FALSE
  /\ gameOver = FALSE
  /\ score = 0
  /\ html = exportHTML(START_SNAKE, initialFoods(<<>>), initialObstacles(<<>>))
  /\ py = exportPython(initialFoods(<<>>), initialObstacles(<<>>))
  /\ ticks = 0
  /\ pristine = FALSE
  /\ restarted = FALSE
  /\ phase = "live"
  /\ elapsed = 0
  /\ accepted = <<>>
  /\ superseded = "NONE"
  /\ call = NoCall

SpecBoard == BoardInit /\ [][Next]_vars

(***************************************************************************)
(* The live engine with the age of its interval.  The game-loop effect     *)
(* depends on [snake, dir, speed, foods, obstacles, paused, gameOver]: a   *)
(* render that changes one of them runs the effect's cleanup, which clears *)
(* the interval, and then the effect, which creates a new one unless       *)
(* paused or game over.  Strings are compared by value and arrays by       *)
(* identity; within MaxTicks no tick brings the snake back to the cells of *)
(* START_SNAKE, so that a snake equal to START_SNAKE is START_SNAKE.       *)
(***************************************************************************)
\* The committed directions of the window after d was committed.
Commit(acc, d) == IF acc = <<>> THEN <<d>> ELSE <<acc[1], d>>

\* Whether the keydown handler calls setDir for key k.
KeyAccepted(cur, k) == KeyDir(k) # "NONE" /\ ~IsOpposite(cur, KeyDir(k))

TimedInit == Mounted /\ phase = "timed"

\* Time passes while the interval is waiting.
Elapse ==
  /\ HasInterval
  /\ elapsed < Period
  /\ elapsed' = elapsed + 1
  /\ UNCHANGED live
  /\ UNCHANGED artifacts
  /\ UNCHANGED <<ticks, pristine, restarted, accepted, superseded, call>>

\* The interval fires once its period has passed; the callback changes snake
\* or gameOver, so the interval is cleared and, unless game over, recreated.
TimedFire ==
  /\ elapsed = Period
  /\ ticks < MaxTimedTicks
  /\ TimerFires
  /\ elapsed' = 0
  /\ accepted' = <<>>
  /\ superseded' = IF Len(accepted) = 2 /\ accepted[1] # accepted[2]
                   THEN accepted[1]
                   ELSE "NONE"
  /\ UNCHANGED call
  /\ UNCHANGED artifacts

TimedKey ==
  /\ \E k \in Keys :
       /\ onKey(k)
       /\ accepted' = IF KeyAccepted(dir, k)
                      THEN Commit(accepted, KeyDir(k))
                      ELSE accepted
  /\ elapsed' = IF dir' # dir THEN 0 ELSE elapsed
  /\ UNCHANGED <<ticks, superseded, call>>
  /\ UNCHANGED artifacts

TimedSwipe ==
  /\ \E v \in Swipes :
       /\ onTouchEnd(v[1], v[2])
       /\ accepted' = IF SwipeDir(v[1], v[2]) # "NONE"
                      THEN Commit(accepted, SwipeDir(v[1], v[2]))
                      ELSE accepted
  /\ elapsed' = IF dir' # dir THEN 0 ELSE elapsed
  /\ UNCHANGED <<ticks, superseded, call>>
  /\ UNCHANGED artifacts

TimedPause ==
  /\ onPauseClick
  /\ elapsed' = 0
  /\ UNCHANGED <<accepted, superseded, call>>
  /\ UNCHANGED artifacts

TimedRestart ==
  /\ onRestartClick
  /\ elapsed' = IF snake' # snake \/ dir' # dir \/ gameOver' # gameOver
                 THEN 0
                 ELSE elapsed
  /\ accepted' = <<>>
  /\ superseded' = "NONE"
  /\ UNCHANGED call
  /\ UNCHANGED artifacts

TimedDrop ==
  /\ \E d \in TimedDrops : onDrop(d.kind, d.x, d.y)
  /\ elapsed' = IF builder' # builder THEN 0 ELSE elapsed
  /\ UNCHANGED <<ticks, accepted, superseded, call>>
  /\ UNCHANGED artifacts

TimedNext ==
  \/ Elapse
  \/ TimedFire
  \/ TimedKey
  \/ TimedSwipe
  \/ TimedPause
  \/ TimedRestart
  \/ TimedDrop

\* Time passes, and a due interval fires.
SpecTimed ==
  /\ TimedInit
  /\ [][TimedNext]_vars
  /\ WF_vars(Elapse)
  /\ WF_vars(TimedFire)

(***************************************************************************)
(* randomEmptyCell on its own: one invocation per behaviour, its arguments *)
(* drawn from the grids up to MaxGrid and the sets of keys over them.      *)
(***************************************************************************)
\* The keys an occupied set is drawn from: those of the cells of the largest
\* grid, and one key of a cell outside every grid.
CallKeys ==
  {keyFor(Pos(x, y)) : x \in 0..(MaxGrid - 1), y \in 0..(MaxGrid - 1)}
    \cup {keyFor(Pos(MaxGrid, MaxGrid))}

CallInit ==
  /\ builder = <<>>
  /\ snake = START_SNAKE
  /\ dir = "RIGHT"
  /\ foods = initialFoods(<<>>)
  /\ obstacles = initialObstacles(<<>>)
  /\ paused = FALSE
  /\ gameOver = FALSE
  /\ score = 0
  /\ html = exportHTML(START_SNAKE, initialFoods(<<>>), initialObstacles(<<>>))
  /\ py = exportPython(initialFoods(<<>>), initialObstacles(<<>>))
  /\ ticks = 0
  /\ pristine = TRUE
  /\ restarted = FALSE
  /\ phase = "call"
  /\ elapsed = 0
  /\ accepted = <<>>
  /\ superseded = "NONE"
  /\ \E occupied \in SUBSET CallKeys, gridSize \in 0..MaxGrid, r \in Random :
       call = [state |-> "called", occupied |-> occupied, gridSize |-> gridSize,
               r |-> r, result |-> Null]

\* The invocation returns.
CallReturns ==
  /\ call.state = "called"
  /\ call' = [call EXCEPT
                !.state = "returned",
                !.result = randomEmptyCell(call.occupied, call.gridSize, call.r)]
  /\ UNCHANGED live
  /\ UNCHANGED artifacts
  /\ UNCHANGED <<ticks, pristine, restarted, elapsed, accepted, superseded>>

CallNext == CallReturns

SpecCall == CallInit /\ [][CallNext]_vars

(***************************************************************************)
(* The browser script: its keydown listener and its step().                *)
(***************************************************************************)
\* The listener's map holds the four arrow keys only.
HtmlKeyDir(k) ==
  IF k = "ArrowUp" THEN "UP"
  ELSE IF k = "ArrowDown" THEN "DOWN"
  ELSE IF k = "ArrowLeft" THEN "LEFT"
  ELSE IF k = "ArrowRight" THEN "RIGHT"
  ELSE "NONE"

\* d === 'UP' and the like, where d is the script's dir: an object {x, y},
\* which is never strictly equal to a string.
ObjEqualsString(d, str) == FALSE

\* The `opposite` test of the listener.
HtmlIsOpposite(d, ndir) ==
  \/ (ObjEqualsString(d, "UP") /\ ndir = "DOWN")
  \/ (ObjEqualsString(d, "DOWN") /\ ndir = "UP")
  \/ (ObjEqualsString(d, "LEFT") /\ ndir = "RIGHT")
  \/ (ObjEqualsString(d, "RIGHT") /\ ndir = "LEFT")

\* The assignments to dir.x and dir.y for an accepted direction.
DirVector(ndir) ==
  IF ndir = "UP" THEN [x |-> 0, y |-> -1]
  ELSE IF ndir = "DOWN" THEN [x |-> 0, y |-> 1]
  ELSE IF ndir = "LEFT" THEN [x |-> -1, y |-> 0]
  ELSE [x |-> 1, y |-> 0]

\* The script's state after its keydown listener ran on key k.
HtmlKeydown(h, k) ==
  LET ndir == HtmlKeyDir(k)
  IN IF ndir # "NONE" /\ ~HtmlIsOpposite(h.dir, ndir)
     THEN [h EXCEPT !.dir = DirVector(ndir)]
     ELSE h

\* The set handed to spawn: Set.prototype.add takes one value, so of the
\* spread obstacle keys only the first is added (undefined when there is none).
HtmlOccupied(s, obs) ==
  KeySet(s) \cup (IF Len(obs) > 0 THEN {keyFor(obs[1])} ELSE {<<"undefined">>})

\* foods after spawn ran; rs are its five draws of Math.random().
HtmlSpawn(fs, s, obs, rs) ==
  LET occupiedSet == HtmlOccupied(s, obs)
      p == Pos(FloorMul(rs[2], GRID_SIZE), FloorMul(rs[3], GRID_SIZE))
      q == Pos(FloorMul(rs[4], GRID_SIZE), FloorMul(rs[5], GRID_SIZE))
  IN IF rs[1] > 0 /\ keyFor(p) \notin occupiedSet THEN Append(fs, p)
     ELSE IF Len(fs) < 5 THEN Append(fs, q)
     ELSE fs

HtmlCollides(h, nx, ny) ==
  HitWall(nx, ny) \/ Some(h.snake, nx, ny) \/ Some(h.obstacles, nx, ny)

\* Whether step(), run now, eats a food.
HtmlEats(h) ==
  LET nx == h.snake[1].x + h.dir.x
      ny == h.snake[1].y + h.dir.y
  IN /\ ~(h.gameOver \/ h.paused)
     /\ ~HtmlCollides(h, nx, ny)
     /\ FindIndex(h.foods, nx, ny) > 0

\* The script's state after step().
HtmlStep(h, rs) ==
  LET nx == h.snake[1].x + h.dir.x
      ny == h.snake[1].y + h.dir.y
      ateFoodIndex == FindIndex(h.foods, nx, ny)
      grown == <<Pos(nx, ny)>> \o h.snake
  IN IF h.gameOver \/ h.paused THEN h
     ELSE IF HtmlCollides(h, nx, ny) THEN [h EXCEPT !.gameOver = TRUE]
     ELSE IF ateFoodIndex > 0
     THEN [h EXCEPT !.snake = grown,
                    !.foods = HtmlSpawn(Splice(h.foods, ateFoodIndex), grown, h.obstacles, rs)]
     ELSE [h EXCEPT !.snake = Pop(grown)]

HtmlDraws(eats) ==
  IF eats THEN Random \X Random \X Random \X Random \X Random ELSE {<<0, 0, 0, 0, 0>>}

(***************************************************************************)
(* The Python script: one iteration of the loop of SnakeGame.run.          *)
(***************************************************************************)
\* v in list, by Python's ==: a tuple never equals a dict.
PyIn(v, list) == \E i \in 1..Len(list) : list[i] = v

\* list.remove(v) on a copy: the first element equal to v is removed.
PyRemove(list, v) ==
  LET i == CHOOSE j \in 1..Len(list) : list[j] = v /\ \A m \in 1..(j - 1) : list[m] # v
  IN Splice(list, i)

PyStep(p) ==
  LET nx == p.snake[1].a + p.dir.a
      ny == p.snake[1].b + p.dir.b
      grown == <<PyTuple(nx, ny)>> \o p.snake
  IN IF ~p.running THEN p
     ELSE IF HitWall(nx, ny) THEN [p EXCEPT !.running = FALSE]
     ELSE IF PyIn(PyTuple(nx, ny), p.snake) THEN [p EXCEPT !.running = FALSE]
     ELSE IF PyIn(PyTuple(nx, ny), p.foods)
     THEN [p EXCEPT !.snake = grown, !.foods = PyRemove(p.foods, PyTuple(nx, ny))]
     ELSE [p EXCEPT !.snake = Pop(grown)]

(***************************************************************************)
(* Replay: a configuration is built, exported, and then the same key       *)
(* events and the same ticks are fed to the live engine and to the logic   *)
(* of both artifacts.                                                      *)
(***************************************************************************)
doExport ==
  /\ html' = exportHTML(snake, foods, obstacles)
  /\ py' = exportPython(foods, obstacles)

ReplayInit == Mounted /\ phase = "build"

ReplayAdd ==
  /\ phase = "build"
  /\ \E kind \in Kinds : addToBuilder(kind)
  /\ UNCHANGED <<ticks, html, py, phase>>
  /\ UNCHANGED extras

ReplayDrop ==
  /\ phase = "build"
  /\ \E d \in ReplayDrops : onDrop(d.kind, d.x, d.y)
  /\ UNCHANGED <<ticks, html, py, phase>>
  /\ UNCHANGED extras

ReplayExport ==
  /\ phase = "build"
  /\ doExport
  /\ phase' = "play"
  /\ restarted' = FALSE
  /\ UNCHANGED live
  /\ UNCHANGED <<ticks, pristine>>
  /\ UNCHANGED extras

ReplayKey ==
  /\ phase = "play"
  /\ \E k \in Keys : onKey(k) /\ html' = HtmlKeydown(html, k)
  /\ UNCHANGED <<py, ticks, phase>>
  /\ UNCHANGED extras

ReplayTick ==
  /\ phase = "play"
  /\ ticks < MaxTicks
  /\ ticks' = ticks + 1
  /\ IF HasInterval
     THEN \E r \in Draws(Eats) : Interval(r)
     ELSE UNCHANGED <<snake, foods, score, gameOver>>
  /\ \E rs \in HtmlDraws(HtmlEats(html)) : html' = HtmlStep(html, rs)
  /\ py' = PyStep(py)
  /\ restarted' = FALSE
  /\ UNCHANGED <<builder, dir, obstacles, paused, pristine, phase>>
  /\ UNCHANGED extras

ReplayNext ==
  \/ ReplayAdd
  \/ ReplayDrop
  \/ ReplayExport
  \/ ReplayKey
  \/ ReplayTick

SpecReplay == ReplayInit /\ [][ReplayNext]_vars

(***************************************************************************)
(* Properties.                                                             *)
(***************************************************************************)
\* The candidate head of the live engine.
Candidate == Pos(NextX(snake[1], dir), NextY(snake[1], dir))

\* The direction filter of the specification: requested, unless it is the
\* exact opposite of current.
Accept(current, requested) ==
  IF \/ (current = "UP" /\ requested = "DOWN")
     \/ (current = "DOWN" /\ requested = "UP")
     \/ (current = "LEFT" /\ requested = "RIGHT")
     \/ (current = "RIGHT" /\ requested = "LEFT")
  THEN current
  ELSE requested

\* The builder of the determinism example: one food at (15,10), no obstacle.
C1_Builder == << [x |-> 15, y |-> 10, kind |-> "food"] >>

\* C1: starting from gridSize 20, snake [(9,10),(10,10),(11,10)] with the head
\* at index 0, direction RIGHT, no obstacles and foods [(15,10)], after exactly
\* 5 ticks with no direction input the head is at (15,10), Score is 1 and the
\* snake length is 4.  The run is observed once 5 ticks have been applied or,
\* no further tick being applied after GAME_OVER, once the engine is game over.
C1_FiveTicks ==
  (/\ phase = "play"
   /\ pristine
   /\ builder = C1_Builder
   /\ obstacles = <<>>
   /\ (ticks = 5 \/ gameOver))
  => (snake[1] = Pos(15, 10) /\ score = 1 /\ Len(snake) = 4)

\* C2: fed the same key events between the same ticks from the same snake,
\* foods and obstacles, the live engine and the browser script are game over
\* after the same number of ticks.
C2_HtmlAgrees == (phase = "play") => (html.gameOver = gameOver)

\* C3: with no direction input, the loop of the Python script has stopped
\* exactly when the live engine is game over, tick for tick.
C3_PythonAgrees == (phase = "play" /\ pristine) => (py.running = ~gameOver)

\* C4: every direction input, from the keyboard or from a swipe, leaves the
\* pending direction equal to Accept(current, requested).
C4_InputsFiltered ==
  [][/\ \A k \in Keys :
          (onKey(k) /\ KeyDir(k) # "NONE") => dir' = Accept(dir, KeyDir(k))
     /\ \A v \in Swipes :
          (onTouchEnd(v[1], v[2]) /\ SwipeDir(v[1], v[2]) # "NONE")
            => dir' = Accept(dir, SwipeDir(v[1], v[2]))]_vars

\* C5: Restart, from any status, leaves the engine RUNNING: neither paused
\* nor game over.
C5_ResetRuns == restarted => (~paused /\ ~gameOver)

\* C6: after Restart the snake is the initial snake, Score is 0 and the foods
\* are the configuration's initial foods.
C6_ResetRestores ==
  restarted => (/\ snake = START_SNAKE
                /\ score = 0
                /\ foods = initialFoods(builder))

\* C7: no food cell is a snake cell or an obstacle cell.
C7_FoodsDisjoint ==
  \A i \in 1..Len(foods) :
    /\ ~Some(snake, foods[i].x, foods[i].y)
    /\ ~Some(obstacles, foods[i].x, foods[i].y)

\* C8: no snake cell is an obstacle cell.
C8_SnakeOffObstacles ==
  \A i \in 1..Len(snake) : ~Some(obstacles, snake[i].x, snake[i].y)

\* C9: no two cells of the snake are equal.
C9_NoSelfOverlap ==
  \A i \in 1..Len(snake), j \in 1..Len(snake) : i # j => snake[i] # snake[j]

\* A grown snake whose tick was refused because the candidate head was its
\* own tail cell.
C9_Witness ==
  /\ gameOver
  /\ Len(snake) >= 4
  /\ Candidate = snake[Len(snake)]

\* C10: an applied tick that does not end in GAME_OVER leaves the length
\* unchanged when the new head cell held no food, and adds one when it did.
C10_Length ==
  [][(ticks' = ticks + 1 /\ ~gameOver')
       => Len(snake') = Len(snake)
                          + (IF Some(foods, snake'[1].x, snake'[1].y) THEN 1 ELSE 0)]_vars

\* Two ticks into a run, one of which ate and one of which did not: the
\* snake is one cell longer and the start head is its third cell.
C10_Witness ==
  /\ ~gameOver
  /\ score = 1
  /\ Len(snake) = 4
  /\ snake[3] = START_SNAKE[1]

\* C11: a tick whose candidate head is outside the grid, on a cell of the
\* pre-move snake, or on an obstacle cell ends in GAME_OVER and leaves the
\* snake, the foods and the Score as they were; whichever of the three tests
\* triggers, no move is applied.
C11_CollisionEndsRun ==
  [][(/\ ticks' = ticks + 1
      /\ \/ Candidate.x < 0 \/ Candidate.x >= GRID_SIZE
         \/ Candidate.y < 0 \/ Candidate.y >= GRID_SIZE
         \/ \E i \in 1..Len(snake) : snake[i] = Candidate
         \/ \E i \in 1..Len(obstacles) : obstacles[i] = Candidate)
       => (gameOver' /\ snake' = snake /\ foods' = foods /\ score' = score)]_vars

\* The run that ended at the right wall: the head in the last column, the
\* candidate head one column beyond it.
C11_Witness ==
  /\ gameOver
  /\ ticks >= 1
  /\ snake[1].x = GRID_SIZE - 1
  /\ Candidate.x = GRID_SIZE
  /\ score = 0

\* The cells of the grid.
Cells == [x : 0..(GRID_SIZE - 1), y : 0..(GRID_SIZE - 1)]

\* The cells outside (s \cup obs).
FreeCells(s, obs) == {c \in Cells : ~Some(s, c.x, c.y) /\ ~Some(obs, c.x, c.y)}

\* C12: a tick that moves the head onto a food cell removes that one food
\* entry, adds exactly 1 to the Score and appends exactly one replacement
\* food, on a cell outside (new snake \cup obstacles), when there is such a
\* cell; when there is none the foods end the tick one entry shorter and the
\* engine is still RUNNING.  A tick that moves without eating leaves the
\* Score and the foods as they were.
C12_EatAndSpawn ==
  [][(ticks' = ticks + 1 /\ ~gameOver')
       => IF \E i \in 1..Len(foods) : foods[i] = Candidate
          THEN /\ score' = score + 1
               /\ ~paused'
               /\ \E i \in 1..Len(foods) :
                    /\ foods[i] = Candidate
                    /\ IF FreeCells(snake', obstacles) # {}
                       THEN \E f \in FreeCells(snake', obstacles) :
                              foods' = Append(Splice(foods, i), f)
                       ELSE foods' = Splice(foods, i)
          ELSE score' = score /\ foods' = foods]_vars

\* The food above the start head was eaten on the grid FullBuilder fills:
\* no cell was left for a replacement and the engine is still RUNNING.
C12_Witness ==
  /\ snake = <<AboveStart>> \o START_SNAKE
  /\ Len(obstacles) = (GRID_SIZE * GRID_SIZE) - 4
  /\ foods = <<>>
  /\ score = 1
  /\ ~gameOver /\ ~paused

\* C13: for every occupied set and gridSize, randomEmptyCell returns null
\* exactly when the occupied set holds every cell of the grid, and otherwise
\* a position inside the grid that is not in the occupied set.
C13_SpawnOffOccupied ==
  (call.state = "returned")
    => LET n == call.gridSize
           covered == \A x \in 0..(n - 1), y \in 0..(n - 1) :
                        keyFor(Pos(x, y)) \in call.occupied
       IN /\ (call.result = Null) <=> covered
          /\ (call.result # Null)
               => /\ call.result.x \in 0..(n - 1)
                  /\ call.result.y \in 0..(n - 1)
                  /\ keyFor(call.result) \notin call.occupied

\* A call on the largest grid with some of its cells occupied, the first one
\* included, that returned a cell.
C13_Witness ==
  /\ call.state = "returned"
  /\ call.gridSize = MaxGrid
  /\ keyFor(Pos(0, 0)) \in call.occupied
  /\ call.result # Null

\* C14: while the engine is PAUSED no timer firing is applied, so that from
\* the pause to the following resume or Restart the snake and the Score stay
\* as they are, and so do the foods unless the builder is edited; once the
\* engine is RUNNING again a timer firing can be applied.
C14_NoTickWhilePaused ==
  /\ [][paused => /\ ticks' = ticks
                   /\ (~restarted' => (snake' = snake /\ score' = score))
                   /\ (builder' = builder => foods' = foods)]_vars
  /\ []((~paused /\ ~gameOver /\ ticks < MaxTicks) => ENABLED Tick)

\* A run paused after a tick that ate.
C14_Witness ==
  /\ paused
  /\ ~gameOver
  /\ ticks >= 1
  /\ score = 1

\* C15: once the engine is in GAME_OVER, every step other than Restart (a
\* timer firing, a key, a swipe, Pause / Resume, a builder edit) leaves it in
\* GAME_OVER with the same snake and the same Score.
C15_GameOverStays ==
  [][(gameOver /\ ~restarted')
       => (gameOver' /\ snake' = snake /\ score' = score)]_vars

\* A run that ended after a turn and was paused afterwards (no timer firing
\* is applied while paused, so the pause came after the end), with a builder
\* that was edited.
C15_Witness ==
  /\ gameOver
  /\ paused
  /\ builder # <<>>
  /\ dir # "RIGHT"
  /\ ticks >= 2

\* C16: a run never starts from a configuration that puts a food or an
\* obstacle on a cell of the initial snake: after Restart the engine is not
\* RUNNING with a builder cell on START_SNAKE.
C16_InvalidConfigRejected ==
  (restarted /\ ~paused /\ ~gameOver)
    => \A i \in 1..Len(START_SNAKE) :
         ~BuilderHas(builder, START_SNAKE[i].x, START_SNAKE[i].y)

\* C17: during a run (a tick has been applied and the engine is not game
\* over) a builder edit changes neither the obstacles nor the foods.
C17_BuilderEditsKeepRun ==
  [][(ticks >= 1 /\ ~gameOver /\ builder' # builder)
       => (obstacles' = obstacles /\ foods' = foods)]_vars

\* C18: in the browser script, the food that spawn adds after an eating
\* step lies neither on a cell of the snake nor on an obstacle cell.
C18_HtmlSpawnOffOccupied ==
  [][(/\ phase = "play"
      /\ ticks' = ticks + 1
      /\ HtmlEats(html)
      /\ Len(html'.foods) = Len(html.foods))
       => LET f == html'.foods[Len(html'.foods)]
          IN /\ ~Some(html'.snake, f.x, f.y)
             /\ ~Some(html'.obstacles, f.x, f.y)]_vars

\* C19: while the engine is RUNNING a timer firing is eventually applied
\* (or the engine leaves RUNNING), whatever direction inputs arrive in
\* between: direction inputs do not restart, delay or drop the timer.
C19_TickEventually ==
  \A n \in 0..(MaxTimedTicks - 1) :
    (HasInterval /\ ticks = n) ~> (~HasInterval \/ ticks > n)

\* The unit delta of a direction.
Delta(d) ==
  IF d = "UP" THEN Pos(0, -1)
  ELSE IF d = "DOWN" THEN Pos(0, 1)
  ELSE IF d = "LEFT" THEN Pos(-1, 0)
  ELSE Pos(1, 0)

\* The cell one step from p in direction d.
Moved(p, d) == Pos(p.x + Delta(d).x, p.y + Delta(d).y)

\* C20: a tick that moves the head moves it by the direction committed last
\* since the previous tick; a direction committed earlier in a window and
\* replaced there by a different one is not applied by the tick after that
\* window either.
C20_LastWriterWins ==
  [][(ticks' = ticks + 1 /\ ~gameOver')
       => /\ (accepted # <<>>)
               => snake'[1] = Moved(snake[1], accepted[Len(accepted)])
          /\ (accepted = <<>> /\ superseded # "NONE")
               => snake'[1] # Moved(snake[1], superseded)]_vars

\* A tick has just moved the head after a window in which two different
\* directions were committed: the head moved by the later one.
C20_Witness ==
  /\ superseded # "NONE"
  /\ accepted = <<>>
  /\ ~gameOver
  /\ elapsed = 0
  /\ dir # superseded
  /\ snake[1] = Moved(snake[2], dir)

\* C21: with keyboard input alone, a tick that follows a tick which moved
\* the snake never has its candidate head on the snake's second cell, that
\* is, never heads opposite to the previous movement.
C21_NoKeyboardReversal ==
  [][(ticks' = ticks + 1 /\ ticks >= 1) => Candidate # snake[2]]_vars

\* C22: the foods hold no two entries with the same position.
C22_FoodsDistinct ==
  \A i \in 1..Len(foods), j \in 1..Len(foods) : i # j => foods[i] # foods[j]

\* C23: the length of the snake is 3 plus the Score.
C23_LengthIsScorePlus3 == Len(snake) = 3 + score

\* A later run, begun by Restart once at least two ticks had been applied,
\* has eaten the food above the start head on its first tick.
C23_Witness ==
  /\ score = 1
  /\ Len(snake) = 4
  /\ ticks >= 3
  /\ ~pristine
  /\ snake[4] = START_SNAKE[3]
  /\ snake[1] = AboveStart
  /\ ~Some(foods, AboveStart.x, AboveStart.y)

====
